---- MODULE Spec2Model ----
(***************************************************************************)
(* Model of the useful-links search (links.js: getResults, _getResults)    *)
(* and of the DisplayUtils icon helpers of campus-guide.                   *)
(*                                                                         *)
(* JavaScript strings are sequences of one-character strings, so that      *)
(* toUpperCase, toLowerCase and indexOf are computed and not assumed.      *)
(* A value that may be null/undefined (or a key that may be absent) is an  *)
(* option: None is <<>> and Some(v) is <<v>>.                              *)
(***************************************************************************)
EXTENDS Integers, Sequences, FiniteSets, TLC

\* ------------------------------------------------------------------------
\* Bounds of the model
\* ------------------------------------------------------------------------

\* Largest number of sections in a configuration tree.
MaxSections == 3

\* How many times in a row Configuration.getConfig may hand back the tree
\* object that an earlier search has already traversed.
MaxReuse == 1

\* ------------------------------------------------------------------------
\* Options and strings
\* ------------------------------------------------------------------------

None == <<>>

Some(v) == <<v>>

\* Variant: a null name is turned into text, as string conversion does.
OrEmpty_nullText(o) == IF o = None THEN <<"n","u","l","l">> ELSE o[1]

\* JavaScript `x || ''` for a string or null/undefined x.
OrEmpty(o) == IF o = None THEN <<>> ELSE o[1]

\* JavaScript truthiness of an array-valued key that may be absent.
Truthy(o) == o # None

LowerAlpha ==
  <<"a","b","c","d","e","f","g","h","i","j","k","l","m",
    "n","o","p","q","r","s","t","u","v","w","x","y","z">>

UpperAlpha ==
  <<"A","B","C","D","E","F","G","H","I","J","K","L","M",
    "N","O","P","Q","R","S","T","U","V","W","X","Y","Z">>

UpperMap ==
  [c \in {LowerAlpha[k] : k \in 1..26} |->
     UpperAlpha[CHOOSE k \in 1..26 : LowerAlpha[k] = c]]

LowerMap ==
  [c \in {UpperAlpha[k] : k \in 1..26} |->
     LowerAlpha[CHOOSE k \in 1..26 : UpperAlpha[k] = c]]

\* String.prototype.toUpperCase
toUpperCase(s) ==
  [k \in 1..Len(s) |-> IF s[k] \in DOMAIN UpperMap THEN UpperMap[s[k]] ELSE s[k]]

\* String.prototype.toLowerCase
toLowerCase(s) ==
  [k \in 1..Len(s) |-> IF s[k] \in DOMAIN LowerMap THEN LowerMap[s[k]] ELSE s[k]]

\* t occurs in s at the (0-based) offset k.
OccursAt(s, t, k) ==
  /\ k + Len(t) <= Len(s)
  /\ \A m \in 1..Len(t) : s[k + m] = t[m]

\* String.prototype.indexOf: the first offset of t in s, or -1.
indexOf(s, t) ==
  IF \E k \in 0..Len(s) : OccursAt(s, t, k)
    THEN CHOOSE k \in 0..Len(s) :
           /\ OccursAt(s, t, k)
           /\ \A m \in 0..(k - 1) : ~OccursAt(s, t, m)
    ELSE -1

\* ------------------------------------------------------------------------
\* DisplayUtils.js
\* ------------------------------------------------------------------------

\* The icon name for certain social media platforms, or a generic icon.
getSocialMediaIconName(socialMedia) ==
  LET n == toLowerCase(socialMedia) IN
  CASE n = <<"l","i","n","k","e","d","i","n">> -> "social-linkedin"
    [] n = <<"t","w","i","t","t","e","r">> -> "social-twitter"
    [] n = <<"f","a","c","e","b","o","o","k">> -> "social-facebook"
    [] n = <<"i","n","s","t","a","g","r","a","m">> -> "social-instagram-outline"
    [] n = <<"y","o","u","t","u","b","e">> -> "social-youtube"
    [] n = <<"t","u","m","b","l","r">> -> "social-tumblr"
    [] OTHER -> "android-open"

\* Variant: the switch is on the name as given, and tumblr is not listed.
getSocialMediaIconColor_caseSensitive(socialMedia) ==
  LET n == socialMedia IN
  CASE n = <<"l","i","n","k","e","d","i","n">> -> "#0077B5"
    [] n = <<"t","w","i","t","t","e","r">> -> "#55ACEE"
    [] n = <<"f","a","c","e","b","o","o","k">> -> "#3D509F"
    [] n = <<"i","n","s","t","a","g","r","a","m">> -> "#241F20"
    [] n = <<"y","o","u","t","u","b","e">> -> "#CD201F"
    [] OTHER -> "#000000"

\* The icon color for certain social media platforms, or a generic color.
getSocialMediaIconColor(socialMedia) ==
  LET n == toLowerCase(socialMedia) IN
  CASE n = <<"l","i","n","k","e","d","i","n">> -> "#0077B5"
    [] n = <<"t","w","i","t","t","e","r">> -> "#55ACEE"
    [] n = <<"f","a","c","e","b","o","o","k">> -> "#3D509F"
    [] n = <<"i","n","s","t","a","g","r","a","m">> -> "#241F20"
    [] n = <<"y","o","u","t","u","b","e">> -> "#CD201F"
    [] n = <<"t","u","m","b","l","r">> -> "#35465C"
    [] OTHER -> "#000000"

\* An IconObject is a record of options: the keys ios, android, icon and
\* iconClass may each be absent; a present ios/android key holds an object
\* whose keys icon and iconClass may each be absent.  `k in o` is o.k # None.

\* The iOS pair of obj, else its generic pair, else null.
getIOSIcon(obj) ==
  IF obj.ios # None /\ obj.ios[1].icon # None /\ obj.ios[1].iconClass # None
    THEN Some([icon |-> obj.ios[1].icon[1], iconClass |-> obj.ios[1].iconClass[1]])
    ELSE IF obj.icon # None /\ obj.iconClass # None
      THEN Some([icon |-> obj.icon[1], iconClass |-> obj.iconClass[1]])
      ELSE None

\* Variant: a platform entry with an icon is used even without iconClass.
getAndroidIcon_iconOnly(obj) ==
  IF obj.android # None /\ obj.android[1].icon # None
    THEN Some([icon |-> obj.android[1].icon[1],
               iconClass |-> OrEmpty(obj.android[1].iconClass)])
    ELSE IF obj.icon # None /\ obj.iconClass # None
      THEN Some([icon |-> obj.icon[1], iconClass |-> obj.iconClass[1]])
      ELSE None

\* The Android pair of obj, else its generic pair, else null.
getAndroidIcon(obj) ==
  IF obj.android # None /\ obj.android[1].icon # None /\ obj.android[1].iconClass # None
    THEN Some([icon |-> obj.android[1].icon[1], iconClass |-> obj.android[1].iconClass[1]])
    ELSE IF obj.icon # None /\ obj.iconClass # None
      THEN Some([icon |-> obj.icon[1], iconClass |-> obj.iconClass[1]])
      ELSE None

\* The pair of obj for the platform: 'ios' or 'android', else null.
getPlatformIcon(platform, obj) ==
  IF platform = "ios"
    THEN getIOSIcon(obj)
    ELSE IF platform = "android"
      THEN getAndroidIcon(obj)
      ELSE None

\* ------------------------------------------------------------------------
\* TranslationUtils (the translation provider the search calls into)
\* ------------------------------------------------------------------------

Languages == {"en", "fr"}

\* The display name of a record in a language, or null.
getTranslatedName(language, obj) ==
  IF language = "en" THEN obj.name_en
  ELSE IF language = "fr" THEN obj.name_fr
  ELSE None

\* The canonical (English) name of a record, or null.
getEnglishName(obj) == obj.name_en

\* The caption tables of the languages, as the translation assets hold them
\* when no caption is missing.
CompleteTranslations ==
  [lang \in Languages |->
     IF lang = "fr"
       THEN [external_links |-> "Liens externes",
             useful_links |-> "Liens utiles",
             see_related_links |-> "Voir les liens connexes"]
       ELSE [external_links |-> "External links",
             useful_links |-> "Useful links",
             see_related_links |-> "See related links"]]

\* The caption tables when the English one has no entry for the captions of
\* the search: reading a missing caption yields undefined, which as a
\* property key is the string 'undefined'.
IncompleteTranslations ==
  [CompleteTranslations EXCEPT
     !["en"] = [external_links |-> "undefined",
                useful_links |-> "undefined",
                see_related_links |-> "undefined"]]

\* ------------------------------------------------------------------------
\* State
\* ------------------------------------------------------------------------

VARIABLES
  language,             \* the current language of the application
  coreTranslations,     \* the caption tables of the translation assets
  heap,                 \* the LinkSection objects of /useful_links.json, by address
  roots,                \* the top-level array of /useful_links.json (addresses)
  traversals,           \* how many searches have traversed the objects in heap
  pc,                   \* position of the getResults promise chain
  searchTerms,          \* argument of the current getResults call (an option)
  adjustedSearchTerms,  \* the uppercased search terms
  requests,             \* Configuration calls issued by the current getResults call
  linkSections,         \* argument of _getResults
  sectionsToSearch,     \* the work queue of _getResults
  i,                    \* loop index of _getResults (0-based)
  links,                \* link results of _getResults
  categories,           \* category results of _getResults
  promise,              \* state of the promise returned by getResults
  value,                \* the mapping the promise resolved with
  reason,               \* the error the promise rejected with
  failure,              \* the Configuration call that failed and its error (an option)
  call,                 \* pending DisplayUtils call
  ret,                  \* value returned by the last DisplayUtils call
  splash,               \* position of the SplashScreen start-up
  store,                \* the configuration held by the redux store
  events                \* what the SplashScreen start-up has done, in order

vars ==
  <<language, coreTranslations, heap, roots, traversals, pc, searchTerms, adjustedSearchTerms,
    requests, linkSections, sectionsToSearch, i, links, categories, promise,
    value, reason, failure, call, ret, splash, store, events>>

searchVars ==
  <<language, coreTranslations, heap, roots, traversals, pc, searchTerms, adjustedSearchTerms,
    requests, linkSections, sectionsToSearch, i, links, categories, promise,
    value, reason, failure>>

displayVars == <<call, ret>>

splashVars == <<splash, store, events>>

\* The table of fixed captions of a language.
getTranslations(lang) == coreTranslations[lang]

\* ------------------------------------------------------------------------
\* Configuration trees (/useful_links.json)
\* ------------------------------------------------------------------------

Nm(en, fr) == [name_en |-> en, name_fr |-> fr]

\* The authored content of a section: its names, its `links` and `social`
\* keys (absent, or an array of named records) and what its `categories`
\* key holds when it has no subcategory (absent, or an empty array).
SectionTemplates ==
  { [name_en |-> Some(<<"W","i">>), name_fr |-> Some(<<"L","o">>),
     links |-> Some(<< Nm(Some(<<"w","I","x">>), Some(<<"L","o">>)),
                       Nm(Some(<<"L","o">>), Some(<<"x","W","i">>)) >>),
     social |-> Some(<< Nm(Some(<<"F","a","c","e","b","o","o","k">>), None) >>),
     categories |-> Some(<<>>)],
    [name_en |-> Some(<<"L","o">>), name_fr |-> Some(<<"l","o","w","I">>),
     links |-> Some(<<>>),
     social |-> Some(<< Nm(Some(<<"T","w","i","t","t","e","r">>),
                           Some(<<"T","w","i","t","t","e","r">>)),
                        Nm(None, Some(<<"L","o">>)) >>),
     categories |-> None],
    [name_en |-> None, name_fr |-> None,
     links |-> None,
     social |-> None,
     categories |-> None],
    [name_en |-> None, name_fr |-> Some(<<"W","i">>),
     links |-> None,
     social |-> Some(<< Nm(Some(<<"w","i">>), Some(<<"L","o">>)) >>),
     categories |-> Some(<<>>)] }

\* The search strings a caller passes: null, empty, and one of mixed case.
Queries == {None, Some(<<>>), Some(<<"w","I">>)}

\* The id a section is authored with.
AuthoredId(s) == <<ToString(s)>>

\* The records of a `links` or `social` key; owner, list and index stand for
\* the identity of the JavaScript object.
MkLinks(s, list, entries) ==
  IF entries = None
    THEN None
    ELSE Some([j \in 1..Len(entries[1]) |->
                 [owner |-> s, list |-> list, index |-> j,
                  name_en |-> entries[1][j].name_en,
                  name_fr |-> entries[1][j].name_fr]])

MkSection(s, tpl, kids) ==
  [id |-> AuthoredId(s),
   icon |-> [name |-> "link", class |-> "material"],
   name_en |-> tpl.name_en,
   name_fr |-> tpl.name_fr,
   links |-> MkLinks(s, "links", tpl.links),
   social |-> MkLinks(s, "social", tpl.social),
   categories |-> IF kids = <<>> THEN tpl.categories ELSE Some(kids)]

\* The sections whose parent is p (0: the top-level array), in file order.
Kids(parent, n, p) == SelectSeq([k \in 1..n |-> k], LAMBDA k : parent[k] = p)

\* A freshly parsed /useful_links.json: every id as authored.
Reload(h) == [s \in DOMAIN h |-> [h[s] EXCEPT !.id = AuthoredId(s)]]

\* ------------------------------------------------------------------------
\* links.js: _getResults
\* ------------------------------------------------------------------------

\* name.toUpperCase().indexOf(searchTerms) >= 0
Matches(name, terms) == indexOf(toUpperCase(name), terms) >= 0

\* Variant: the title is uppercased like the matched terms.
pushLink_upperTitle(ls, sectionName, linkName, iconName, link, matchedSectionName) ==
  Append(ls,
    [description |-> sectionName,
     data |-> link,
     icon |-> [name |-> iconName, class |-> "ionicon"],
     matchedTerms |->
       IF matchedSectionName
         THEN <<toUpperCase(sectionName), toUpperCase(linkName)>>
         ELSE <<toUpperCase(linkName)>>,
     title |-> toUpperCase(linkName)])

\* Variant: the two branches of matchedTerms are exchanged.
pushLink_swappedTerms(ls, sectionName, linkName, iconName, link, matchedSectionName) ==
  Append(ls,
    [description |-> sectionName,
     data |-> link,
     icon |-> [name |-> iconName, class |-> "ionicon"],
     matchedTerms |->
       IF matchedSectionName
         THEN <<toUpperCase(linkName)>>
         ELSE <<toUpperCase(sectionName), toUpperCase(linkName)>>,
     title |-> linkName])

\* Method to add a link to the results.
pushLink(ls, sectionName, linkName, iconName, link, matchedSectionName) ==
  Append(ls,
    [description |-> sectionName,
     data |-> link,
     icon |-> [name |-> iconName, class |-> "ionicon"],
     matchedTerms |->
       IF matchedSectionName
         THEN <<toUpperCase(sectionName), toUpperCase(linkName)>>
         ELSE <<toUpperCase(linkName)>>,
     title |-> linkName])

\* The category result of a section whose name matched.
pushCategory(cs, Translations, section, sectionName) ==
  Append(cs,
    [description |-> Translations.see_related_links,
     data |-> section.id,
     icon |-> section.icon,
     matchedTerms |-> <<toUpperCase(sectionName)>>,
     title |-> sectionName])

RECURSIVE pushSectionLinks(_, _, _, _, _)
\* Matched section: every entry of section.links from the j-th on.
pushSectionLinks(ls, lang, sectionName, arr, j) ==
  IF j > Len(arr)
    THEN ls
    ELSE LET link == arr[j]
             linkName == OrEmpty(getTranslatedName(lang, link))
         IN pushSectionLinks(
              pushLink(ls, sectionName, linkName, "md-open", link, TRUE),
              lang, sectionName, arr, j + 1)

RECURSIVE pushSectionSocial(_, _, _, _, _)
\* Matched section: every entry of section.social from the j-th on.
pushSectionSocial(ls, lang, sectionName, arr, j) ==
  IF j > Len(arr)
    THEN ls
    ELSE LET link == arr[j]
             linkName == OrEmpty(getTranslatedName(lang, link))
             iconName == getSocialMediaIconName(OrEmpty(getEnglishName(link)))
         IN pushSectionSocial(
              pushLink(ls, sectionName, linkName, iconName, link, TRUE),
              lang, sectionName, arr, j + 1)

RECURSIVE pushMatchingLinks(_, _, _, _, _, _)
\* Unmatched section: the entries of section.links whose own name matches.
pushMatchingLinks(ls, lang, terms, sectionName, arr, j) ==
  IF j > Len(arr)
    THEN ls
    ELSE LET link == arr[j]
             linkName == OrEmpty(getTranslatedName(lang, link))
         IN pushMatchingLinks(
              IF Matches(linkName, terms)
                THEN pushLink(ls, sectionName, linkName, "md-open", link, FALSE)
                ELSE ls,
              lang, terms, sectionName, arr, j + 1)

RECURSIVE pushMatchingSocial(_, _, _, _, _, _)
\* Unmatched section: the entries of section.social whose own name matches.
pushMatchingSocial(ls, lang, terms, sectionName, arr, j) ==
  IF j > Len(arr)
    THEN ls
    ELSE LET link == arr[j]
             linkName == OrEmpty(getTranslatedName(lang, link))
             iconName == getSocialMediaIconName(OrEmpty(getEnglishName(link)))
         IN pushMatchingSocial(
              IF Matches(linkName, terms)
                THEN pushLink(ls, sectionName, linkName, iconName, link, FALSE)
                ELSE ls,
              lang, terms, sectionName, arr, j + 1)

\* Variant: the links of a matched section are filtered by their own name.
searchLinks_filtered(ls, lang, terms, section, sectionName) ==
  LET l1 == IF Truthy(section.links)
              THEN pushMatchingLinks(ls, lang, terms, sectionName,
                                     section.links[1], 1)
              ELSE ls
  IN IF Truthy(section.social)
       THEN pushMatchingSocial(l1, lang, terms, sectionName,
                               section.social[1], 1)
       ELSE l1

\* Variant: the social entries of a section are searched before its links.
searchLinks_socialFirst(ls, lang, terms, section, sectionName) ==
  IF Matches(sectionName, terms)
    THEN LET l1 == IF Truthy(section.social)
                     THEN pushSectionSocial(ls, lang, sectionName, section.social[1], 1)
                     ELSE ls
         IN IF Truthy(section.links)
              THEN pushSectionLinks(l1, lang, sectionName, section.links[1], 1)
              ELSE l1
    ELSE LET l1 == IF Truthy(section.social)
                     THEN pushMatchingSocial(ls, lang, terms, sectionName,
                                             section.social[1], 1)
                     ELSE ls
         IN IF Truthy(section.links)
              THEN pushMatchingLinks(l1, lang, terms, sectionName,
                                     section.links[1], 1)
              ELSE l1

\* The link results after one section has been searched.
searchLinks(ls, lang, terms, section, sectionName) ==
  IF Matches(sectionName, terms)
    THEN LET l1 == IF Truthy(section.links)
                     THEN pushSectionLinks(ls, lang, sectionName, section.links[1], 1)
                     ELSE ls
         IN IF Truthy(section.social)
              THEN pushSectionSocial(l1, lang, sectionName, section.social[1], 1)
              ELSE l1
    ELSE LET l1 == IF Truthy(section.links)
                     THEN pushMatchingLinks(ls, lang, terms, sectionName,
                                            section.links[1], 1)
                     ELSE ls
         IN IF Truthy(section.social)
              THEN pushMatchingSocial(l1, lang, terms, sectionName,
                                      section.social[1], 1)
              ELSE l1

\* Variant: a category result is pushed whether or not the name matched.
searchCategory_always(cs, lang, terms, section, sectionName) ==
  pushCategory(cs, getTranslations(lang), section, sectionName)

\* The category results after one section has been searched.
searchCategory(cs, lang, terms, section, sectionName) ==
  IF Matches(sectionName, terms)
    THEN pushCategory(cs, getTranslations(lang), section, sectionName)
    ELSE cs

\* Variant: the two ids are joined in the other order.
joinIds_reversed(parentId, subId) == subId \o <<"-">> \o parentId

\* `${section.id}-${sub.id}`
joinIds(parentId, subId) == parentId \o <<"-">> \o subId

\* Variant: an id that already starts with the id of the section and '-'
\* is left as it is.
rewriteIds_once(h, s) ==
  LET subs == h[s].categories[1]
      prefix == h[s].id \o <<"-">>
  IN [c \in DOMAIN h |->
        IF /\ \E j \in 1..Len(subs) : subs[j] = c
           /\ ~(/\ Len(h[c].id) >= Len(prefix)
                /\ SubSeq(h[c].id, 1, Len(prefix)) = prefix)
          THEN [h[c] EXCEPT !.id = joinIds(h[s].id, h[c].id)]
          ELSE h[c]]

\* section.categories[j].id = `${section.id}-${section.categories[j].id}`,
\* for every j, on the objects of the heap.
rewriteIds(h, s) ==
  LET subs == h[s].categories[1] IN
  [c \in DOMAIN h |->
     IF \E j \in 1..Len(subs) : subs[j] = c
       THEN [h[c] EXCEPT !.id = joinIds(h[s].id, h[c].id)]
       ELSE h[c]]

\* results[key] = list
Put(m, key, list) ==
  [k \in (DOMAIN m) \cup {key} |-> IF k = key THEN list ELSE m[k]]

\* Variant: the two assignments are made in the other order.
buildResults_categoriesFirst(Translations, ls, cs) ==
  Put(Put(<<>>, Translations.useful_links, cs), Translations.external_links, ls)

\* The mapping _getResults resolves with.
buildResults(Translations, ls, cs) ==
  Put(Put(<<>>, Translations.external_links, ls), Translations.useful_links, cs)

\* ------------------------------------------------------------------------
\* Initial states
\* ------------------------------------------------------------------------

\* No getResults call has been made; /useful_links.json holds the tree of
\* n sections with the given parents and authored contents.
IdleSearch(lang, n, parent, tpl) ==
  /\ language = lang
  /\ coreTranslations \in {CompleteTranslations, IncompleteTranslations}
  /\ heap = [s \in 1..n |-> MkSection(s, tpl[s], Kids(parent, n, s))]
  /\ roots = Kids(parent, n, 0)
  /\ traversals = 0
  /\ pc = "idle"
  /\ searchTerms = None
  /\ adjustedSearchTerms = <<>>
  /\ requests = <<>>
  /\ linkSections = <<>>
  /\ sectionsToSearch = <<>>
  /\ i = 0
  /\ links = <<>>
  /\ categories = <<>>
  /\ promise = "none"
  /\ value = <<>>
  /\ reason = ""
  /\ failure = None

NoDisplayCall ==
  /\ call = [fn |-> "none"]
  /\ ret = None

\* No SplashScreen is mounted.
NoSplashScreen ==
  /\ splash = "unmounted"
  /\ store = <<>>
  /\ events = <<>>

Init ==
  /\ \E lang \in Languages :
       \E n \in 1..MaxSections :
         \E parent \in [1..n -> 0..(n - 1)] :
           /\ \A k \in 1..n : parent[k] < k
           /\ \E tpl \in [1..n -> SectionTemplates] :
                IdleSearch(lang, n, parent, tpl)
  /\ coreTranslations = CompleteTranslations
  /\ NoDisplayCall
  /\ NoSplashScreen

\* ------------------------------------------------------------------------
\* links.js: getResults
\* ------------------------------------------------------------------------

Errors == {"ENOENT", "EPARSE"}

\* Variant: only the null check is made.
isEmptyQuery_nullOnly(q) == q = None

\* searchTerms == null || searchTerms.length === 0
isEmptyQuery(q) == q = None \/ Len(q[1]) = 0

\* Variant: the short-circuit resolves with both group lists, empty.
emptyResults_bothKeys == buildResults(getTranslations(language), <<>>, <<>>)

\* resolve({})
emptyResults == <<>>

\* A caller invokes getResults(language, q); the previous call has settled.
getResults(q) ==
  /\ pc \in {"idle", "resolved", "rejected"}
  /\ searchTerms' = q
  /\ IF isEmptyQuery(q)
       THEN /\ promise' = "resolved"
            /\ value' = emptyResults
            /\ pc' = "resolved"
            /\ adjustedSearchTerms' = <<>>
            /\ requests' = <<>>
       ELSE /\ promise' = "pending"
            /\ value' = <<>>
            /\ pc' = "init"
            /\ adjustedSearchTerms' = toUpperCase(q[1])
            /\ requests' = <<"init">>
  /\ reason' = ""
  /\ failure' = None
  /\ linkSections' = <<>>
  /\ sectionsToSearch' = <<>>
  /\ i' = 0
  /\ links' = <<>>
  /\ categories' = <<>>
  /\ UNCHANGED <<language, coreTranslations, heap, roots, traversals, displayVars,
                 splashVars>>

\* Configuration.init() resolves: Configuration.getConfig is called.
InitResolves ==
  /\ pc = "init"
  /\ pc' = "getConfig"
  /\ requests' = Append(requests, "getConfig")
  /\ UNCHANGED <<language, coreTranslations, heap, roots, traversals, searchTerms,
                 adjustedSearchTerms, linkSections, sectionsToSearch, i, links,
                 categories, promise, value, reason, failure, displayVars,
                 splashVars>>

\* Variant: the handler logs the error and resolves.
catch_swallow(err) ==
  /\ promise' = "resolved"
  /\ reason' = ""
  /\ pc' = "resolved"

\* The catch handler: reject(err).
catch(err) ==
  /\ promise' = "rejected"
  /\ reason' = err
  /\ pc' = "rejected"

\* Configuration.init() rejects with e.
InitRejects(e) ==
  /\ pc = "init"
  /\ failure' = Some([request |-> "init", err |-> e])
  /\ catch(e)
  /\ UNCHANGED <<language, coreTranslations, heap, roots, traversals, searchTerms,
                 adjustedSearchTerms, requests, linkSections, sectionsToSearch,
                 i, links, categories, value, displayVars,
                 splashVars>>

\* Configuration.getConfig('/useful_links.json') rejects with e.
GetConfigRejects(e) ==
  /\ pc = "getConfig"
  /\ failure' = Some([request |-> "getConfig", err |-> e])
  /\ catch(e)
  /\ UNCHANGED <<language, coreTranslations, heap, roots, traversals, searchTerms,
                 adjustedSearchTerms, requests, linkSections, sectionsToSearch,
                 i, links, categories, value, displayVars,
                 splashVars>>

\* _getResults is entered with the array getConfig resolved with.
enter_getResults ==
  /\ linkSections' = roots
  /\ sectionsToSearch' = roots
  /\ i' = 0
  /\ links' = <<>>
  /\ categories' = <<>>
  /\ pc' = "loop"

\* Configuration.getConfig resolves with a freshly parsed tree.
GetConfigResolvesFresh ==
  /\ pc = "getConfig"
  /\ heap' = Reload(heap)
  /\ traversals' = 1
  /\ enter_getResults
  /\ UNCHANGED <<language, coreTranslations, roots, searchTerms, adjustedSearchTerms, requests,
                 promise, value, reason, failure, displayVars,
                 splashVars>>

\* Configuration.getConfig resolves with the tree object it resolved with
\* before, which earlier searches have traversed.
GetConfigResolvesSame ==
  /\ pc = "getConfig"
  /\ traversals >= 1
  /\ traversals <= MaxReuse
  /\ traversals' = traversals + 1
  /\ enter_getResults
  /\ UNCHANGED <<language, coreTranslations, heap, roots, searchTerms, adjustedSearchTerms,
                 requests, promise, value, reason, failure, displayVars,
                 splashVars>>

\* Variant: the result of concat is dropped, so the queue never grows.
LoopIteration_dropConcat ==
  /\ pc = "loop"
  /\ i < Len(sectionsToSearch)
  /\ LET s == sectionsToSearch[i + 1]
         section == heap[s]
         sectionName == OrEmpty(getTranslatedName(language, section))
     IN /\ categories' = searchCategory(categories, language, adjustedSearchTerms,
                                        section, sectionName)
        /\ links' = searchLinks(links, language, adjustedSearchTerms,
                                section, sectionName)
        /\ IF Truthy(section.categories)
             THEN /\ heap' = rewriteIds(heap, s)
                  /\ UNCHANGED sectionsToSearch
             ELSE UNCHANGED <<heap, sectionsToSearch>>
  /\ i' = i + 1
  /\ UNCHANGED <<language, coreTranslations, roots, traversals, pc, searchTerms,
                 adjustedSearchTerms, requests, linkSections, promise, value,
                 reason, failure, displayVars,
                 splashVars>>

\* One iteration of the loop over sectionsToSearch.
LoopIteration ==
  /\ pc = "loop"
  /\ i < Len(sectionsToSearch)
  /\ LET s == sectionsToSearch[i + 1]
         section == heap[s]
         sectionName == OrEmpty(getTranslatedName(language, section))
     IN /\ categories' = searchCategory(categories, language, adjustedSearchTerms,
                                        section, sectionName)
        /\ links' = searchLinks(links, language, adjustedSearchTerms,
                                section, sectionName)
        /\ IF Truthy(section.categories)
             THEN /\ heap' = rewriteIds(heap, s)
                  /\ sectionsToSearch' = sectionsToSearch \o section.categories[1]
             ELSE UNCHANGED <<heap, sectionsToSearch>>
  /\ i' = i + 1
  /\ UNCHANGED <<language, coreTranslations, roots, traversals, pc, searchTerms,
                 adjustedSearchTerms, requests, linkSections, promise, value,
                 reason, failure, displayVars,
                 splashVars>>

\* The loop is over: _getResults resolves with the mapping and getResults
\* resolves with it.
LoopExit ==
  /\ pc = "loop"
  /\ ~(i < Len(sectionsToSearch))
  /\ value' = buildResults(getTranslations(language), links, categories)
  /\ promise' = "resolved"
  /\ pc' = "resolved"
  /\ UNCHANGED <<language, coreTranslations, heap, roots, traversals, searchTerms,
                 adjustedSearchTerms, requests, linkSections, sectionsToSearch,
                 i, links, categories, reason, failure, displayVars,
                 splashVars>>

Next ==
  \/ \E q \in Queries : getResults(q)
  \/ InitResolves
  \/ \E e \in Errors : InitRejects(e)
  \/ \E e \in Errors : GetConfigRejects(e)
  \/ GetConfigResolvesFresh
  \/ GetConfigResolvesSame
  \/ LoopIteration
  \/ LoopExit

Spec == Init /\ [][Next]_vars

\* The section contents that decide how the queue grows: a section with all
\* keys and an empty `categories` list, and a section with no keys at all.
TraversalTemplates ==
  {t \in SectionTemplates : (t.name_en = None) <=> (t.categories = None)}

\* Every tree shape of up to MaxSections sections over those contents.
InitFair ==
  /\ \E n \in 1..MaxSections :
       \E parent \in [1..n -> 0..(n - 1)] :
         /\ \A k \in 1..n : parent[k] < k
         /\ \E tpl \in [1..n -> TraversalTemplates] :
              IdleSearch("en", n, parent, tpl)
  /\ coreTranslations = CompleteTranslations
  /\ NoDisplayCall
  /\ NoSplashScreen

\* The loop of _getResults is synchronous code inside one promise callback:
\* once entered it runs to completion, so its steps are taken whenever they
\* stay enabled.
SpecFair ==
  InitFair /\ [][Next]_vars /\ WF_vars(LoopIteration) /\ WF_vars(LoopExit)

\* The search in English, with the caption tables complete or with the
\* captions of the search missing from the English table.
InitLabels ==
  /\ \E n \in 1..MaxSections :
       \E parent \in [1..n -> 0..(n - 1)] :
         /\ \A k \in 1..n : parent[k] < k
         /\ \E tpl \in [1..n -> SectionTemplates] :
              IdleSearch("en", n, parent, tpl)
  /\ NoDisplayCall
  /\ NoSplashScreen

SpecLabels == InitLabels /\ [][Next]_vars

\* ------------------------------------------------------------------------
\* SplashScreen: start-up

\* What the six Preferences getters resolve with, in the order of the array
\* given to Promise.all.
PreferenceResults ==
  {0, 1} \X {None, Some("en"), Some("fr")} \X {0, 1} \X BOOLEAN \X BOOLEAN
    \X {"12h", "24h"}

\* What Configuration.getConfig('/university.json') resolves with: the
\* parsed object, or no object.
Universities ==
  {None, Some([semesters |-> <<>>]), Some([semesters |-> <<"fall", "winter">>])}

\* The object that props.updatePreferences dispatches.
updatePreferences(preferences) ==
  [timesAppOpened |-> preferences[1],
   language |-> preferences[2],
   currentSemester |-> preferences[3],
   prefersWheelchair |-> preferences[4],
   alwaysSearchAll |-> preferences[5],
   preferredTimeFormat |-> preferences[6]]

\* The object that props.updateConfiguration dispatches.
updateConfiguration(university) == [semesters |-> university.semesters]

\* A SplashScreen was constructed; it is not mounted yet.
InitSplash ==
  /\ \E tpl \in [1..1 -> {t \in SectionTemplates : t.links = None /\ t.social = None}] :
       IdleSearch("en", 1, [k \in 1..1 |-> 0], tpl)
  /\ coreTranslations = CompleteTranslations
  /\ NoDisplayCall
  /\ NoSplashScreen

\* componentDidMount calls _loadPreferences, which starts the six getters.
componentDidMount ==
  /\ splash = "unmounted"
  /\ splash' = "loadPreferences"
  /\ events' = Append(events, "Preferences.get")
  /\ UNCHANGED <<store, searchVars, displayVars>>

\* Variant: _checkConfiguration is called before the preferences are
\* dispatched.
loadPreferences_then_initFirst(results) ==
  /\ splash = "loadPreferences"
  /\ store' = Append(store, updatePreferences(results))
  /\ events' = events \o <<"preferences loaded", "Configuration.init",
                           "updatePreferences">>
  /\ splash' = "init"
  /\ UNCHANGED <<searchVars, displayVars>>

\* Promise.all resolves: the preferences are dispatched, then
\* _checkConfiguration calls Configuration.init.
loadPreferences_then(results) ==
  /\ splash = "loadPreferences"
  /\ store' = Append(store, updatePreferences(results))
  /\ events' = events \o <<"preferences loaded", "updatePreferences",
                           "Configuration.init">>
  /\ splash' = "init"
  /\ UNCHANGED <<searchVars, displayVars>>

\* Promise.all rejects: the error is written to the console and nothing
\* else happens.
loadPreferences_catch(err) ==
  /\ splash = "loadPreferences"
  /\ events' = events \o <<"preferences failed", "console.error">>
  /\ splash' = "error"
  /\ UNCHANGED <<store, searchVars, displayVars>>

\* Configuration.init resolves: getConfig('/university.json') is called.
checkConfiguration_initResolves ==
  /\ splash = "init"
  /\ events' = events \o <<"init resolved", "Configuration.getConfig">>
  /\ splash' = "getConfig"
  /\ UNCHANGED <<store, searchVars, displayVars>>

\* Configuration.init rejects: the catch handler pushes 'update'.
checkConfiguration_initRejects(err) ==
  /\ splash = "init"
  /\ events' = events \o <<"init failed", "console.log", "push update">>
  /\ splash' = "update"
  /\ UNCHANGED <<store, searchVars, displayVars>>

\* getConfig resolves: the semesters are dispatched and 'main' is pushed;
\* when there is no object, reading its semesters throws and the catch
\* handler pushes 'update'.
checkConfiguration_getConfigResolves(university) ==
  /\ splash = "getConfig"
  /\ IF Truthy(university)
       THEN /\ store' = Append(store, updateConfiguration(university[1]))
            /\ events' = events \o <<"university obtained", "updateConfiguration",
                                     "push main">>
            /\ splash' = "main"
       ELSE /\ events' = events \o <<"university obtained", "handler failed",
                                     "console.log", "push update">>
            /\ splash' = "update"
            /\ UNCHANGED store
  /\ UNCHANGED <<searchVars, displayVars>>

\* getConfig rejects: the catch handler pushes 'update'.
checkConfiguration_getConfigRejects(err) ==
  /\ splash = "getConfig"
  /\ events' = events \o <<"getConfig failed", "console.log", "push update">>
  /\ splash' = "update"
  /\ UNCHANGED <<store, searchVars, displayVars>>

NextSplash ==
  \/ componentDidMount
  \/ \E results \in PreferenceResults : loadPreferences_then(results)
  \/ \E e \in Errors : loadPreferences_catch(e)
  \/ checkConfiguration_initResolves
  \/ \E e \in Errors : checkConfiguration_initRejects(e)
  \/ \E university \in Universities : checkConfiguration_getConfigResolves(university)
  \/ \E e \in Errors : checkConfiguration_getConfigRejects(e)

SpecSplash == InitSplash /\ [][NextSplash]_vars

\* ------------------------------------------------------------------------
\* Calls of the DisplayUtils helpers
\* ------------------------------------------------------------------------

\* The lower-case names of the platforms the switch statements list.
PlatformNames ==
  { <<"l","i","n","k","e","d","i","n">>,
    <<"t","w","i","t","t","e","r">>,
    <<"f","a","c","e","b","o","o","k">>,
    <<"i","n","s","t","a","g","r","a","m">>,
    <<"y","o","u","t","u","b","e">>,
    <<"t","u","m","b","l","r">> }

\* A name written capitalised.
Capitalised(n) == [k \in 1..Len(n) |-> IF k = 1 THEN UpperMap[n[1]] ELSE n[k]]

\* A name written in lower case, capitalised, in upper case, and with only
\* its last letter in upper case.
Spellings(n) ==
  { n, Capitalised(n), toUpperCase(n),
    [k \in 1..Len(n) |-> IF k = Len(n) THEN UpperMap[n[k]] ELSE n[k]] }

\* Strings that name no listed platform: the empty string, another word,
\* and names with a letter missing or a character added.
OtherNames ==
  { <<>>, <<"L","o">>, <<"w","i">>, <<"t","w","i","t","t","e">>,
    <<"t","w","i","t","t","e","r"," ">>, <<" ","t","u","m","b","l","r">>,
    <<"y","o","u","-","t","u","b","e">>, <<"F","A","C","E","B","O","O","K","S">> }

SocialMediaNames == (UNION {Spellings(n) : n \in PlatformNames}) \cup OtherNames

\* The values of the keys ios and android of an IconObject.
PlatformEntries(icon, iconClass) ==
  {None} \cup
  { Some([icon |-> a, iconClass |-> b]) :
      a \in {None, Some(icon)}, b \in {None, Some(iconClass)} }

IconObjects ==
  [ios : PlatformEntries("ios-open", "ionicon"),
   android : PlatformEntries("md-open", "material"),
   icon : {None, Some("open")},
   iconClass : {None, Some("generic")}]

PlatformStrings == {"ios", "android", "windows", "iOS"}

\* No search is under way: the configuration is a single section without
\* links, and no DisplayUtils helper has been called.
InitDisplay ==
  /\ \E tpl \in [1..1 -> {t \in SectionTemplates : t.links = None /\ t.social = None}] :
       IdleSearch("en", 1, [k \in 1..1 |-> 0], tpl)
  /\ coreTranslations = CompleteTranslations
  /\ NoDisplayCall
  /\ NoSplashScreen

CallGetSocialMediaIconName(socialMedia) ==
  /\ call' = [fn |-> "getSocialMediaIconName", socialMedia |-> socialMedia]
  /\ ret' = getSocialMediaIconName(socialMedia)
  /\ UNCHANGED <<searchVars, splashVars>>

CallGetSocialMediaIconColor(socialMedia) ==
  /\ call' = [fn |-> "getSocialMediaIconColor", socialMedia |-> socialMedia]
  /\ ret' = getSocialMediaIconColor(socialMedia)
  /\ UNCHANGED <<searchVars, splashVars>>

CallGetIOSIcon(obj) ==
  /\ call' = [fn |-> "getIOSIcon", obj |-> obj]
  /\ ret' = getIOSIcon(obj)
  /\ UNCHANGED <<searchVars, splashVars>>

CallGetAndroidIcon(obj) ==
  /\ call' = [fn |-> "getAndroidIcon", obj |-> obj]
  /\ ret' = getAndroidIcon(obj)
  /\ UNCHANGED <<searchVars, splashVars>>

CallGetPlatformIcon(platform, obj) ==
  /\ call' = [fn |-> "getPlatformIcon", platform |-> platform, obj |-> obj]
  /\ ret' = getPlatformIcon(platform, obj)
  /\ UNCHANGED <<searchVars, splashVars>>

NextDisplay ==
  \/ \E n \in SocialMediaNames : CallGetSocialMediaIconName(n)
  \/ \E n \in SocialMediaNames : CallGetSocialMediaIconColor(n)
  \/ \E obj \in IconObjects : CallGetIOSIcon(obj)
  \/ \E obj \in IconObjects : CallGetAndroidIcon(obj)
  \/ \E p \in PlatformStrings : \E obj \in IconObjects : CallGetPlatformIcon(p, obj)

SpecDisplay == InitDisplay /\ [][NextDisplay]_vars

\* ------------------------------------------------------------------------
\* Vocabulary of the properties
\* ------------------------------------------------------------------------

\* t is a substring of s.
Contains(s, t) ==
  \E k \in 1..(Len(s) - Len(t) + 1) : SubSeq(s, k, k + Len(t) - 1) = t

\* The current getResults call was made with a null or zero-length string.
EmptyQuery == pc # "idle" /\ (searchTerms = None \/ searchTerms = Some(<<>>))

\* The current getResults call was made with a non-empty string.
NonEmptyQuery == pc # "idle" /\ searchTerms # None /\ searchTerms # Some(<<>>)

\* The current call, made with a non-empty string, has resolved.
SearchDone == NonEmptyQuery /\ pc = "resolved"

\* The uppercased query of the current call.
QueryUpper == toUpperCase(searchTerms[1])

\* The translated name of a section or link, '' when there is none.
DisplayName(obj) == OrEmpty(getTranslatedName(language, obj))

NameUpper(obj) == toUpperCase(DisplayName(obj))

NameMatches(obj) == Contains(NameUpper(obj), QueryUpper)

\* The elements of an array-valued key, none when the key is absent.
Entries(o) == IF o = None THEN {} ELSE {o[1][j] : j \in 1..Len(o[1])}

\* The direct links and social entries of a section.
LinksOf(s) == Entries(heap[s].links) \cup Entries(heap[s].social)

\* The positions of the link results whose data is the link record e.
Occurrences(e) == {k \in 1..Len(links) : links[k].data = e}

\* The positions of the category results whose data is the id of section s.
CategoryResults(s) == {k \in 1..Len(categories) : categories[k].data = heap[s].id}

\* The section whose `categories` holds s, 0 for a top-level section.
ParentOf(s) ==
  IF \E p \in DOMAIN heap : s \in Entries(heap[p].categories)
    THEN CHOOSE p \in DOMAIN heap : s \in Entries(heap[p].categories)
    ELSE 0

RECURSIVE Depth(_)
Depth(s) == IF ParentOf(s) = 0 THEN 1 ELSE 1 + Depth(ParentOf(s))

RECURSIVE ChainId(_)
\* The authored ids of the ancestors of s from the root down, then its own,
\* joined with '-'.
ChainId(s) ==
  IF ParentOf(s) = 0
    THEN AuthoredId(s)
    ELSE ChainId(ParentOf(s)) \o <<"-">> \o AuthoredId(s)

ExternalLinksLabel == getTranslations(language).external_links

UsefulLinksLabel == getTranslations(language).useful_links

\* ------------------------------------------------------------------------
\* Properties
\* ------------------------------------------------------------------------

\* C1: for a null or zero-length search string, getResults resolves with a
\* mapping that has no keys, and no Configuration.init or
\* Configuration.getConfig request is issued.
C1_EmptyQueryResolvesEmptyNoRequest ==
  EmptyQuery =>
    /\ promise = "resolved"
    /\ DOMAIN value = {}
    /\ requests = <<>>

\* A zero-length query has resolved, after an earlier search went through
\* the configuration.
C1_Witness ==
  /\ pc = "resolved"
  /\ searchTerms = Some(<<>>)
  /\ promise = "resolved"
  /\ traversals >= 1

\* C2 as stated: for an empty or null query the mapping has both group keys,
\* each mapped to an empty list, and the configuration is never requested.
C2_EmptyQueryBothKeysPresent ==
  EmptyQuery =>
    /\ {ExternalLinksLabel, UsefulLinksLabel} \subseteq DOMAIN value
    /\ value[ExternalLinksLabel] = <<>>
    /\ value[UsefulLinksLabel] = <<>>
    /\ \A k \in 1..Len(requests) : requests[k] \notin {"init", "getConfig"}

\* C2 amended: for an empty or null query the mapping has neither group key,
\* and the configuration is never requested.
C2_EmptyQueryNeitherKeyPresent ==
  EmptyQuery =>
    /\ ExternalLinksLabel \notin DOMAIN value
    /\ UsefulLinksLabel \notin DOMAIN value
    /\ \A k \in 1..Len(requests) : requests[k] \notin {"init", "getConfig"}

\* A null query has resolved.
C2_Witness ==
  /\ pc = "resolved"
  /\ searchTerms = None
  /\ promise = "resolved"

\* C3: for every section whose uppercased translated name contains the
\* uppercased query, every entry of its `links` and of its `social` occurs
\* exactly once in the link results, whether or not its own name matches,
\* with matchedTerms = [sectionNameUpper, linkNameUpper].
C3_MatchedSectionContributesAllLinks ==
  SearchDone =>
    \A s \in DOMAIN heap :
      NameMatches(heap[s]) =>
        \A e \in LinksOf(s) :
          /\ Cardinality(Occurrences(e)) = 1
          /\ \A k \in Occurrences(e) :
               /\ Len(links[k].matchedTerms) = 2
               /\ links[k].matchedTerms = <<NameUpper(heap[s]), NameUpper(e)>>

\* A nested section matched and a link of it whose own name does not match
\* is among the link results.
C3_Witness ==
  /\ SearchDone
  /\ \E s \in DOMAIN heap :
       /\ Depth(s) >= 2
       /\ NameMatches(heap[s])
       /\ \E e \in Entries(heap[s].links) :
            ~NameMatches(e) /\ Occurrences(e) # {}
       /\ \E e \in Entries(heap[s].social) :
            ~NameMatches(e) /\ Occurrences(e) # {}

\* C4: for every section whose uppercased translated name does not contain
\* the query, an entry of its `links` or `social` is among the link results
\* if and only if its own uppercased translated name contains the query;
\* the result then has matchedTerms = [linkNameUpper] and the name in its
\* original case as title.
C4_UnmatchedSectionContributesMatchingLinks ==
  SearchDone =>
    \A s \in DOMAIN heap :
      ~NameMatches(heap[s]) =>
        \A e \in LinksOf(s) :
          /\ Cardinality(Occurrences(e)) = IF NameMatches(e) THEN 1 ELSE 0
          /\ \A k \in Occurrences(e) :
               /\ Len(links[k].matchedTerms) = 1
               /\ links[k].matchedTerms = <<NameUpper(e)>>
               /\ links[k].title = DisplayName(e)

\* A section did not match; one of its links matched, is among the results
\* under a title that is not all upper case, and another of its entries
\* did not match and is not among the results.
C4_Witness ==
  /\ SearchDone
  /\ \E s \in DOMAIN heap :
       /\ ~NameMatches(heap[s])
       /\ \E e \in LinksOf(s) :
            /\ NameMatches(e)
            /\ \E k \in Occurrences(e) :
                 links[k].title # toUpperCase(links[k].title)
       /\ \E e \in LinksOf(s) : ~NameMatches(e) /\ Occurrences(e) = {}

\* C5: for a non-empty query, every result in the link results and in the
\* category results has, among its matchedTerms, one that contains the
\* uppercased query.
C5_EveryResultHasMatchingTerm ==
  (NonEmptyQuery /\ pc \in {"loop", "resolved"}) =>
    /\ \A k \in 1..Len(links) :
         \E m \in 1..Len(links[k].matchedTerms) :
           Contains(links[k].matchedTerms[m], QueryUpper)
    /\ \A k \in 1..Len(categories) :
         \E m \in 1..Len(categories[k].matchedTerms) :
           Contains(categories[k].matchedTerms[m], QueryUpper)

\* The results hold a category, a link found through its section whose own
\* name does not match, and a link found through its own name.
C5_Witness ==
  /\ SearchDone
  /\ Len(categories) >= 1
  /\ \E k \in 1..Len(links) :
       /\ Len(links[k].matchedTerms) = 2
       /\ ~Contains(links[k].matchedTerms[2], QueryUpper)
  /\ \E k \in 1..Len(links) : Len(links[k].matchedTerms) = 1

\* C6: on a freshly loaded tree every section, at any depth, is visited, and
\* the category results are those of the sections whose name matches, each
\* with the ids of its ancestors from the root down followed by its own
\* authored id, joined with '-', as data.
C6_NestedSectionsVisitedWithChainId ==
  (SearchDone /\ traversals = 1) =>
    /\ \A s \in DOMAIN heap :
         \E k \in 1..Len(sectionsToSearch) : sectionsToSearch[k] = s
    /\ \A s \in DOMAIN heap :
         NameMatches(heap[s]) =>
           \E k \in 1..Len(categories) :
             /\ categories[k].data = ChainId(s)
             /\ categories[k].title = DisplayName(heap[s])
    /\ \A k \in 1..Len(categories) :
         \E s \in DOMAIN heap :
           NameMatches(heap[s]) /\ categories[k].data = ChainId(s)

\* A section of the third level matched on a freshly loaded tree and its
\* category result carries the three ids of the chain.
C6_Witness ==
  /\ SearchDone
  /\ traversals = 1
  /\ \E s \in DOMAIN heap :
       /\ Depth(s) = 3
       /\ NameMatches(heap[s])
       /\ \E k \in 1..Len(categories) :
            /\ categories[k].data = <<"1", "-", "2", "-", "3">>
            /\ categories[k].data = ChainId(s)

\* C7: when Configuration.init or Configuration.getConfig fails, the promise
\* of getResults is rejected with that error and not resolved, no result
\* mapping or partial result exists, and no Configuration request follows
\* the failed one.
C7_FailureRejectsWithoutResultsOrRetry ==
  failure # None =>
    /\ promise = "rejected"
    /\ pc = "rejected"
    /\ reason = failure[1].err
    /\ DOMAIN value = {}
    /\ links = <<>> /\ categories = <<>>
    /\ requests = IF failure[1].request = "init"
                    THEN <<"init">>
                    ELSE <<"init", "getConfig">>

\* Configuration.getConfig failed in a search that followed a completed one.
C7_Witness ==
  /\ failure # None
  /\ failure[1].request = "getConfig"
  /\ promise = "rejected"
  /\ reason = "EPARSE"
  /\ traversals >= 1

\* C10: the category results hold exactly one result for each section whose
\* uppercased translated name contains the query and none for any other
\* section; the result has the display name as title, the id the section
\* has when it is processed as data, the 'see related links' caption as
\* description and matchedTerms = [sectionNameUpper].
C10_OneCategoryResultPerMatchingSection ==
  SearchDone =>
    /\ \A s \in DOMAIN heap :
         /\ Cardinality(CategoryResults(s)) = IF NameMatches(heap[s]) THEN 1 ELSE 0
         /\ \A k \in CategoryResults(s) :
              /\ categories[k].title = DisplayName(heap[s])
              /\ categories[k].description =
                   getTranslations(language).see_related_links
              /\ categories[k].matchedTerms = <<NameUpper(heap[s])>>
    /\ \A k \in 1..Len(categories) :
         \E s \in DOMAIN heap : k \in CategoryResults(s)

\* Two sections matched, one of them nested, a third did not, and the
\* category results are the two.
C10_Witness ==
  /\ SearchDone
  /\ Len(categories) = 2
  /\ \E s \in DOMAIN heap : Depth(s) >= 2 /\ CategoryResults(s) # {}
  /\ \E s \in DOMAIN heap : ~NameMatches(heap[s]) /\ CategoryResults(s) = {}

\* The input of the current DisplayUtils call names no listed platform.
UnlistedName ==
  \A n \in PlatformNames : call.socialMedia \notin Spellings(n)

\* C8: getSocialMediaIconName and getSocialMediaIconColor return, for a
\* listed platform written in any letter case, the icon and the color of
\* that platform, which are not the fallbacks; for every other string, the
\* empty one included, the fallback icon and the color '#000000'; and a
\* name is recognised by one function exactly when it is by the other.
C8_SocialMediaLookupTotalCaseInsensitive ==
  /\ call.fn = "getSocialMediaIconName" =>
       /\ \A n \in PlatformNames :
            call.socialMedia \in Spellings(n) =>
              ret = getSocialMediaIconName(n) /\ ret # "android-open"
       /\ UnlistedName => ret = "android-open"
       /\ (ret = "android-open") <=>
            (getSocialMediaIconColor(call.socialMedia) = "#000000")
  /\ call.fn = "getSocialMediaIconColor" =>
       /\ \A n \in PlatformNames :
            call.socialMedia \in Spellings(n) =>
              ret = getSocialMediaIconColor(n) /\ ret # "#000000"
       /\ UnlistedName => ret = "#000000"
       /\ (ret = "#000000") <=>
            (getSocialMediaIconName(call.socialMedia) = "android-open")

\* The color of 'TUMBLR', written in upper case, has been looked up.
C8_Witness ==
  /\ call.fn = "getSocialMediaIconColor"
  /\ call.socialMedia = <<"T","U","M","B","L","R">>
  /\ ret = "#35465C"

\* The entry of obj for a platform: the key 'ios' or 'android', if present.
PlatformEntry(platform, obj) ==
  IF platform = "ios" THEN obj.ios
  ELSE IF platform = "android" THEN obj.android
  ELSE None

\* C9: getPlatformIcon returns the pair of the platform's entry when obj has
\* that entry with both 'icon' and 'iconClass'; otherwise the generic pair
\* when obj has both 'icon' and 'iconClass'; otherwise null; and null for
\* any platform other than 'ios' and 'android'.
C9_PlatformIconFallsBackToGeneric ==
  call.fn = "getPlatformIcon" =>
    LET entry == PlatformEntry(call.platform, call.obj) IN
    ret =
      IF call.platform \notin {"ios", "android"}
        THEN None
        ELSE IF entry # None /\ entry[1].icon # None /\ entry[1].iconClass # None
          THEN Some([icon |-> entry[1].icon[1], iconClass |-> entry[1].iconClass[1]])
          ELSE IF call.obj.icon # None /\ call.obj.iconClass # None
            THEN Some([icon |-> call.obj.icon[1], iconClass |-> call.obj.iconClass[1]])
            ELSE None

\* The android entry holds an icon and no iconClass, and the generic pair of
\* the object was returned.
C9_Witness ==
  /\ call.fn = "getPlatformIcon"
  /\ call.platform = "android"
  /\ call.obj.android = Some([icon |-> Some("md-open"), iconClass |-> None])
  /\ ret = Some([icon |-> "open", iconClass |-> "generic"])

\* The subcategories of a section, in source order.
ChildrenOf(s) == IF heap[s].categories = None THEN <<>> ELSE heap[s].categories[1]

RECURSIVE ConcatChildren(_)
\* The subcategories of the sections of a level, parent by parent.
ConcatChildren(level) ==
  IF level = <<>>
    THEN <<>>
    ELSE ChildrenOf(Head(level)) \o ConcatChildren(Tail(level))

RECURSIVE LevelsFrom(_)
\* A level of the tree followed by all deeper levels.
LevelsFrom(level) ==
  IF level = <<>> THEN <<>> ELSE level \o LevelsFrom(ConcatChildren(level))

\* The sections of the tree breadth-first: the top-level sections in their
\* order, then level after level.
BreadthFirstOrder == LevelsFrom(roots)

\* The place of a section in the work queue.
Position(s) == CHOOSE k \in 1..Len(sectionsToSearch) : sectionsToSearch[k] = s

\* The section a category result was pushed for.
SectionOfCategory(k) == CHOOSE s \in DOMAIN heap : heap[s].id = categories[k].data

\* The link record a comes before b in the source: in an earlier-processed
\* section, or in the same section with `links` before `social` and each
\* array in its own order.
LinkPrecedes(a, b) ==
  \/ Position(a.owner) < Position(b.owner)
  \/ /\ a.owner = b.owner
     /\ \/ a.list = "links" /\ b.list = "social"
        \/ a.list = b.list /\ a.index < b.index

\* C11: the work queue is the breadth-first order of the tree (top-level
\* sections in their order, then nested sections in the order they were
\* appended), a section's results are pushed when the loop reaches it, and
\* both result lists are in that processing order, the `links` results of a
\* section before its `social` results, each in source order.
C11_ResultsInBreadthFirstQueueOrder ==
  /\ (NonEmptyQuery /\ pc \in {"loop", "resolved"}) =>
       /\ Len(sectionsToSearch) <= Len(BreadthFirstOrder)
       /\ sectionsToSearch = SubSeq(BreadthFirstOrder, 1, Len(sectionsToSearch))
       /\ \A k \in 1..Len(links) : Position(links[k].data.owner) <= i
  /\ SearchDone =>
       /\ sectionsToSearch = BreadthFirstOrder
       /\ \A k1, k2 \in 1..Len(categories) :
            k1 < k2 => Position(SectionOfCategory(k1)) < Position(SectionOfCategory(k2))
       /\ \A k1, k2 \in 1..Len(links) :
            k1 < k2 => LinkPrecedes(links[k1].data, links[k2].data)

\* The tree has the top-level sections 1 and 3 and the section 2 nested in
\* 1, so that the queue is 1, 3, 2; two sections gave category results, and
\* one section gave results from its `links` and from its `social`.
C11_Witness ==
  /\ SearchDone
  /\ sectionsToSearch = <<1, 3, 2>>
  /\ Len(categories) >= 2
  /\ \E k1, k2 \in 1..Len(links) :
       /\ links[k1].data.owner = links[k2].data.owner
       /\ links[k1].data.list = "links"
       /\ links[k2].data.list = "social"
  /\ \E k1, k2 \in 1..Len(links) : links[k1].data.owner # links[k2].data.owner

RECURSIVE IdAfter(_, _)
\* The id of a section once n searches have traversed the same tree object:
\* a top-level id stays as authored, a nested id is prefixed, at each
\* search, with the id its parent has in that search.
IdAfter(s, n) ==
  IF n = 0
    THEN AuthoredId(s)
    ELSE LET p == ParentOf(s)
         IN  IF p = 0
               THEN AuthoredId(s)
               ELSE IdAfter(p, n) \o <<"-">> \o IdAfter(s, n - 1)

\* C12: the id rewrite is in place and not idempotent.  Top-level ids never
\* change.  When a search has gone twice or more over the same tree object,
\* the id of every nested section is the current id of its parent, '-' and
\* the id it had after the search before, which it differs from; and the
\* category results of that search carry the new ids, not the earlier ones.
C12_RepeatedSearchPrefixesIdsAgain ==
  /\ \A s \in DOMAIN heap : ParentOf(s) = 0 => heap[s].id = AuthoredId(s)
  /\ (pc = "idle" \/ pc = "resolved") =>
       /\ \A s \in DOMAIN heap : heap[s].id = IdAfter(s, traversals)
       /\ traversals >= 2 =>
            \A s \in DOMAIN heap :
              ParentOf(s) # 0 =>
                LET before == IdAfter(s, traversals - 1)
                IN  /\ heap[s].id # before
                    /\ heap[s].id = heap[ParentOf(s)].id \o <<"-">> \o before
  /\ (SearchDone /\ traversals >= 2) =>
       \A s \in DOMAIN heap :
         (ParentOf(s) # 0 /\ NameMatches(heap[s])) =>
           /\ \E k \in 1..Len(categories) :
                categories[k].data = IdAfter(s, traversals)
           /\ \A k \in 1..Len(categories) :
                categories[k].data # IdAfter(s, traversals - 1)

\* The same tree object has been searched twice: the section 2 nested in
\* 1, '1-2' after the first search, matched in the second one and its
\* category result carries '1-1-2'.
C12_Witness ==
  /\ SearchDone
  /\ traversals = 2
  /\ \E s \in DOMAIN heap :
       /\ ParentOf(s) = 1
       /\ IdAfter(s, 1) = <<"1", "-", "2">>
       /\ heap[s].id = <<"1", "-", "1", "-", "2">>
       /\ \E k \in 1..Len(categories) : categories[k].data = heap[s].id

\* C13: the mapping of a non-empty-query search maps the 'external links'
\* label to the link results and the 'useful links' label to the category
\* results; when the two labels are the same string it has that single key,
\* mapped to the category results.
C13_LabelsMapToListsLastWriteWins ==
  SearchDone =>
    IF ExternalLinksLabel # UsefulLinksLabel
      THEN /\ DOMAIN value = {ExternalLinksLabel, UsefulLinksLabel}
           /\ value[ExternalLinksLabel] = links
           /\ value[UsefulLinksLabel] = categories
      ELSE /\ DOMAIN value = {UsefulLinksLabel}
           /\ value[UsefulLinksLabel] = categories

\* The two labels are the same string, the search found links and the
\* mapping holds the category results only.
C13_Witness ==
  /\ SearchDone
  /\ ExternalLinksLabel = UsefulLinksLabel
  /\ Len(links) >= 1
  /\ Len(categories) >= 1
  /\ DOMAIN value = {ExternalLinksLabel}
  /\ value[ExternalLinksLabel] = categories

\* How many link results a section is to give: all its entries when its
\* name matches, else those whose own name matches.
ExpectedLinkCount(s) ==
  IF NameMatches(heap[s])
    THEN Cardinality(LinksOf(s))
    ELSE Cardinality({e \in LinksOf(s) : NameMatches(e)})

RECURSIVE ExpectedLinkTotal(_)
\* The sum of ExpectedLinkCount over a set of sections.
ExpectedLinkTotal(S) ==
  IF S = {}
    THEN 0
    ELSE LET x == CHOOSE y \in S : TRUE
         IN  ExpectedLinkCount(x) + ExpectedLinkTotal(S \ {x})

\* The translated name lookup of a section or link returns null.
Unnamed(obj) == getTranslatedName(language, obj) = None

\* C14: missing data never fails the traversal.  While the loop runs the
\* promise stays pending without error, and the search resolves with the
\* mapping.  A section without `links`, `social` or `categories` gives no
\* result from that key and nothing to the queue; a section whose name
\* lookup returns null gives no category result and only the links that
\* match by their own name, under the empty section name; a link whose name
\* lookup returns null is a result only through its section, under the
\* empty title; and the rest of the tree gives all its results.
C14_MissingDataToleratedAsEmpty ==
  /\ pc = "loop" => promise = "pending" /\ failure = None /\ reason = ""
  /\ SearchDone =>
       /\ promise = "resolved" /\ failure = None /\ reason = ""
       /\ UsefulLinksLabel \in DOMAIN value
       /\ Len(sectionsToSearch) = Cardinality(DOMAIN heap)
       /\ \A s \in DOMAIN heap :
            /\ heap[s].links = None =>
                 \A k \in 1..Len(links) :
                   ~(links[k].data.owner = s /\ links[k].data.list = "links")
            /\ heap[s].social = None =>
                 \A k \in 1..Len(links) :
                   ~(links[k].data.owner = s /\ links[k].data.list = "social")
            /\ Unnamed(heap[s]) =>
                 /\ \A k \in 1..Len(categories) : categories[k].data # heap[s].id
                 /\ \A k \in 1..Len(links) :
                      links[k].data.owner = s =>
                        /\ links[k].description = <<>>
                        /\ Len(links[k].matchedTerms) = 1
                        /\ NameMatches(links[k].data)
       /\ \A k \in 1..Len(links) :
            Unnamed(links[k].data) =>
              /\ links[k].title = <<>>
              /\ NameMatches(heap[links[k].data.owner])
       /\ Len(links) = ExpectedLinkTotal(DOMAIN heap)
       /\ Len(categories) = Cardinality({s \in DOMAIN heap : NameMatches(heap[s])})

\* The tree holds a section with no name and none of the three keys and a
\* section with no name and no `links` whose social entry matched; the
\* search resolved with that entry and with the results of a third section.
C14_Witness ==
  /\ SearchDone
  /\ promise = "resolved"
  /\ \E s \in DOMAIN heap :
       /\ Unnamed(heap[s])
       /\ heap[s].links = None /\ heap[s].social = None /\ heap[s].categories = None
  /\ \E s \in DOMAIN heap :
       /\ Unnamed(heap[s])
       /\ heap[s].links = None
       /\ \E k \in 1..Len(links) : links[k].data.owner = s /\ links[k].description = <<>>
  /\ Len(categories) >= 1
  /\ Len(links) >= 3

\* The set of sections in the work queue.
Queued == {sectionsToSearch[k] : k \in 1..Len(sectionsToSearch)}

\* C15: on every finite tree the traversal loop terminates having processed
\* each section exactly once.  Every run of the loop leads to the resolved
\* promise; during the loop no section is queued twice and the index stays
\* within the queue; at the end the queue holds every section of the tree
\* once, its length is the number of sections, and the index has passed all
\* of it.
C15_LoopTerminatesEachSectionOnce ==
  /\ [](pc = "loop" =>
          /\ i <= Len(sectionsToSearch)
          /\ Cardinality(Queued) = Len(sectionsToSearch)
          /\ Queued \subseteq DOMAIN heap)
  /\ [](SearchDone =>
          /\ promise = "resolved"
          /\ Len(sectionsToSearch) = Cardinality(DOMAIN heap)
          /\ Queued = DOMAIN heap
          /\ i = Len(sectionsToSearch))
  /\ (pc = "loop") ~> (pc = "resolved" /\ promise = "resolved")

\* A search over a tree of MaxSections sections with a section nested two
\* levels down has resolved after the loop passed the whole queue.
C15_Witness ==
  /\ SearchDone
  /\ promise = "resolved"
  /\ Cardinality(DOMAIN heap) = MaxSections
  /\ \E s \in DOMAIN heap : Depth(s) = 3
  /\ Len(sectionsToSearch) = MaxSections
  /\ i = MaxSections

\* The event e is in the log of the SplashScreen.
Happened(e) == \E k \in 1..Len(events) : events[k] = e

\* How many times the event e is in the log.
Times(e) == Cardinality({k \in 1..Len(events) : events[k] = e})

\* Every e in the log has an earlier a in the log.
Precedes(a, e) ==
  \A k \in 1..Len(events) :
    events[k] = e => \E j \in 1..(k - 1) : events[j] = a

\* Configuration.init, getConfig or the success handler failed.
ConfigurationFailed ==
  Happened("init failed") \/ Happened("getConfig failed") \/ Happened("handler failed")

\* C16: the start-up events of SplashScreen are ordered.  The preferences
\* are dispatched to the store before Configuration.init is called; 'main'
\* is pushed only after the university configuration was obtained and its
\* semesters dispatched, and not after a failure; 'update' is pushed exactly
\* when Configuration.init, getConfig or the success handler failed; and
\* when loading the preferences failed, Configuration.init is never called,
\* nothing is dispatched and nothing is pushed.
C16_SplashStartupEventsOrdered ==
  /\ Precedes("updatePreferences", "Configuration.init")
  /\ Happened("Configuration.init") =>
       /\ Len(store) >= 1
       /\ store[1] \in {updatePreferences(r) : r \in PreferenceResults}
  /\ Precedes("university obtained", "push main")
  /\ Precedes("updateConfiguration", "push main")
  /\ Happened("push main") =>
       /\ Len(store) = 2
       /\ store[2] \in {updateConfiguration(u[1]) : u \in Universities \ {None}}
       /\ ~ConfigurationFailed
       /\ ~Happened("push update")
  /\ ConfigurationFailed <=> Happened("push update")
  /\ Times("push main") + Times("push update") <= 1
  /\ Happened("preferences failed") =>
       /\ ~Happened("Configuration.init")
       /\ ~Happened("push main")
       /\ ~Happened("push update")
       /\ store = <<>>

\* The start-up reached 'main': the preferences were dispatched, then
\* Configuration.init was called, the university configuration was obtained
\* and its semesters dispatched.
C16_Witness ==
  /\ splash = "main"
  /\ Len(store) = 2
  /\ store[2] = [semesters |-> <<"fall", "winter">>]
  /\ events = <<"Preferences.get", "preferences loaded", "updatePreferences",
                "Configuration.init", "init resolved", "Configuration.getConfig",
                "university obtained", "updateConfiguration", "push main">>

====
